---- MODULE Spec2Model ----
(***************************************************************************)
(* Model of the format-comparison pipeline of dataset-dedupe-estimator:    *)
(* de/formats.py (FileFormat values and path derivation) and               *)
(* de/estimate.py (estimate, compare_formats_tables, compare_formats).     *)
(* The ThreadPoolExecutor is a pool of max_workers threads that pick       *)
(* pending futures; the orchestrating thread submits, collects with        *)
(* as_completed, maps estimate over the groups and builds the records.     *)
(* SpecFormats covers direct calls of derive_path and write on the four    *)
(* FileFormat classes; SpecSynthetic covers de/synthetic.py, the edit      *)
(* operations of DataGenerator and FakeDataGenerator's random streams.     *)
(* SpecStats covers the parquet rewrite phases of the stats command of     *)
(* de/cli.py.                                                              *)
(***************************************************************************)
EXTENDS Integers, Sequences, FiniteSets, TLC

\* ------------------------------------------------------------------ bounds
MaxFormats == 2      \* longest formats list / contenders map
MaxTasks == 4        \* most write futures of one compare_formats_tables run
MaxWorkers == 2      \* largest max_workers
MaxBytes == 2        \* largest total_len the estimator reports
MaxRows == 4         \* largest size of a generated base table
MaxEdits == 2        \* longest edit_points list
MaxEditSize == 2     \* largest edit_size
MaxOtherDraws == 1   \* most np.random draws made by code other than the generator
MaxFiles == 2        \* most parquet files the stats command finds

\* ------------------------------------------------------- de/formats.py
\* Optional[...] values: <<>> is None, <<x>> is x.
None == <<>>

\* bool | CdcParams
CdcOff == [isParams |-> FALSE, flag |-> FALSE]
CdcOn == [isParams |-> FALSE, flag |-> TRUE]
CdcExplicit ==
  [isParams |-> TRUE, min_chunk_size |-> 1, max_chunk_size |-> 2, norm_level |-> 0]

\* Python truthiness of use_cdc: a CdcParams instance is always truthy.
Truthy(use_cdc) == IF use_cdc.isParams THEN TRUE ELSE use_cdc.flag

ParquetCpp(use_cdc, compression, row_group_size) ==
  [cls |-> "ParquetCpp", use_cdc |-> use_cdc, compression |-> compression,
   use_dictionary |-> TRUE, data_page_size |-> None,
   row_group_size |-> row_group_size]

ParquetRs(use_cdc, compression) ==
  [cls |-> "ParquetRs", use_cdc |-> use_cdc, compression |-> compression]

JsonLines(compression) == [cls |-> "JsonLines", compression |-> compression]

Sqlite(compression) == [cls |-> "Sqlite", compression |-> compression]

\* FileFormat.name: the class name with "Format" removed.
name(fmt) == fmt.cls

suffix(fmt) ==
  CASE fmt.cls = "ParquetCpp" -> "parquet"
    [] fmt.cls = "ParquetRs" -> "parquet"
    [] fmt.cls = "JsonLines" -> "jsonlines"
    [] fmt.cls = "Sqlite" -> "sqlite"

RECURSIVE Join(_, _)
\* sep.join(parts)
Join(sep, parts) ==
  IF parts = <<>> THEN ""
  ELSE IF Len(parts) = 1 THEN parts[1]
  ELSE parts[1] \o sep \o Join(sep, Tail(parts))

\* ParquetCpp.paramstem / ParquetRs.paramstem: the codec, then "cdc";
\* JsonLines.paramstem / Sqlite.paramstem: self.compression or "".
paramstem(fmt) ==
  IF fmt.cls \in {"JsonLines", "Sqlite"}
  THEN IF fmt.compression = None THEN "" ELSE fmt.compression[1]
  ELSE Join("-", fmt.compression
                 \o (IF Truthy(fmt.use_cdc) THEN <<"cdc">> ELSE <<>>))

\* A derive_path that puts the dash in whether or not paramstem is empty.
derive_pathAlwaysDash(fmt, entry, directory) ==
  Append(directory, entry \o "-" \o paramstem(fmt) \o "." \o suffix(fmt))

\* FileFormat.derive_path: a path is the sequence of its components.
derive_path(fmt, entry, directory) ==
  LET stem == IF paramstem(fmt) # "" THEN entry \o "-" \o paramstem(fmt)
              ELSE entry
  IN  Append(directory, stem \o "." \o suffix(fmt))

\* The outcome of fmt.write(name, src, directory): the derived path, or the
\* error it raises.  ParquetRs rejects explicit CdcParams before writing;
\* any write can also fail in the file system or in its sanity check.
WriteOutcomes(fmt, entry, directory) ==
  IF fmt.cls = "ParquetRs" /\ fmt.use_cdc.isParams
  THEN {[ok |-> FALSE, error |-> "ValueError"]}
  ELSE {[ok |-> TRUE, path |-> derive_path(fmt, entry, directory)],
        [ok |-> FALSE, error |-> "OSError"]}

\* ------------------------------------------------------------- inputs
FormatSet ==
  {ParquetCpp(CdcOff, None, None),
   ParquetCpp(CdcOff, None, <<1>>),
   ParquetCpp(CdcOn, <<"zstd">>, None),
   ParquetRs(CdcExplicit, None)}

\* formats: list[FileFormat]; nothing in the code rejects repeated entries.
FormatLists == UNION {[1..n -> FormatSet] : n \in 1..MaxFormats}

\* A variant's data map {name: Path | pa.Table}, by its keys in dict order.
DataMaps == {<<>>, <<"original">>, <<"original", "edit">>}

\* tables: dict[str, dict]; one or two variants, keys in dict order.
TableMaps ==
  {<<[table_name |-> "v1", data |-> d]>> : d \in DataMaps}
  \cup {<<[table_name |-> "v1", data |-> d1], [table_name |-> "v2", data |-> d2]>> :
          d1 \in DataMaps, d2 \in DataMaps}

\* contenders: dict[str, FileFormat], by its items in dict order.
ContenderMaps ==
  {<<[name |-> "c1", fmt |-> f]>> : f \in FormatSet}
  \cup (IF MaxFormats < 2 THEN {}
        ELSE {<<[name |-> "c1", fmt |-> f1], [name |-> "c2", fmt |-> f2]>> :
                f1 \in FormatSet, f2 \in FormatSet})
  \cup (IF MaxFormats < 3 THEN {}
        ELSE {<<[name |-> "c1", fmt |-> f1], [name |-> "c2", fmt |-> f2],
                [name |-> "c3", fmt |-> f3]>> :
                f1 \in FormatSet, f2 \in FormatSet, f3 \in FormatSet})

directory == <<"dir">>

\* ThreadPoolExecutor() without max_workers: min(32, cpu_count + 4) threads.
DefaultMaxWorkers == 5

RECURSIVE SumLen(_)
SumLen(seq) == IF seq = <<>> THEN 0 ELSE Len(Head(seq).data) + SumLen(Tail(seq))

\* ------------------------------------------------------ de/estimate.py
RECURSIVE GCD(_, _)
GCD(a, b) == IF b = 0 THEN a ELSE GCD(b, a % b)

\* Python's a / b for b # 0, as the fraction in lowest terms.
Div(a, b) == <<a \div GCD(a, b), b \div GCD(a, b)>>

\* de.core.estimate(paths): (total_bytes, chunk_bytes, compressed_chunk_bytes).
\* total_bytes is the summed size of the files, chunk_bytes the bytes of
\* their unique chunks: all of them, or as little as one byte.  The sizes
\* drawn are zero, one and the largest.
EstimateDe(paths) ==
  UNION {{[total_bytes |-> t, chunk_bytes |-> c, compressed_chunk_bytes |-> c] :
            c \in (IF t = 0 THEN {0} ELSE {1, t})} :
         t \in {0, 1, MaxBytes}}

\* de.core.estimate_xet(paths): the bytes the xet tool would transmit.
EstimateXet(paths) == {1}

\* estimate with the quotients turned over: total_bytes / chunk_bytes.
estimateInverted(paths, de, xet_bytes) ==
  IF de.chunk_bytes = 0 \/ xet_bytes = 0
  THEN [ok |-> FALSE, error |-> "ZeroDivisionError"]
  ELSE [ok |-> TRUE,
        data |-> [numfiles |-> Len(paths),
                  total_len |-> de.total_bytes,
                  chunk_bytes |-> de.chunk_bytes,
                  compressed_chunk_bytes |-> de.compressed_chunk_bytes,
                  dedup_ratio |-> Div(de.total_bytes, de.chunk_bytes),
                  xet_bytes |-> xet_bytes,
                  xet_dedup_ratio |-> Div(de.total_bytes, xet_bytes)]]

\* estimate(paths) for given outputs of the two external estimators.
estimate(paths, de, xet_bytes) ==
  IF de.total_bytes = 0
  THEN [ok |-> FALSE, error |-> "ZeroDivisionError"]
  ELSE [ok |-> TRUE,
        data |-> [numfiles |-> Len(paths),
                  total_len |-> de.total_bytes,
                  chunk_bytes |-> de.chunk_bytes,
                  compressed_chunk_bytes |-> de.compressed_chunk_bytes,
                  dedup_ratio |-> Div(de.chunk_bytes, de.total_bytes),
                  xet_bytes |-> xet_bytes,
                  xet_dedup_ratio |-> Div(xet_bytes, de.total_bytes)]]

\* EstimationResult(format=..., group=..., **data)
EstimationResult(fmt, group, data) ==
  [format |-> fmt, group |-> group, numfiles |-> data.numfiles,
   total_len |-> data.total_len, chunk_bytes |-> data.chunk_bytes,
   compressed_chunk_bytes |-> data.compressed_chunk_bytes,
   dedup_ratio |-> data.dedup_ratio, xet_bytes |-> data.xet_bytes,
   xet_dedup_ratio |-> data.xet_dedup_ratio]

VARIABLES
  op,               \* the entry point being run
  formats,          \* compare_formats_tables: the formats argument
  tables,           \* compare_formats_tables: the tables argument
  baseline,         \* compare_formats: the baseline format
  contenders,       \* compare_formats: the contenders argument
  max_workers,      \* size of the ThreadPoolExecutor
  pc,               \* position of the orchestrating thread
  futures,          \* write futures, in submission order
  yielded,          \* write futures as_completed has yielded
  groups,           \* compare_formats_tables: groups, in key insertion order
  baseline_path,    \* compare_formats: baseline_future.result()
  contender_paths,  \* compare_formats: contender_paths, in insertion order
  est_futures,      \* futures of executor.map(estimate, ...), in order
  estimates,        \* the estimates collected from est_futures
  result,           \* the returned list of EstimationResult
  error,            \* the exception that left the function, or "none"
  call,             \* arguments of a direct call (formats.py, synthetic.py)
  ret,              \* what the direct call returned, None before it returns
  files,            \* files a direct write() call has put on disk
  np_random,        \* state of numpy's process-wide generator np.random
  fake_random       \* state of the random.Random that Faker instances share

vars ==
  <<op, formats, tables, baseline, contenders, max_workers, pc, futures,
    yielded, groups, baseline_path, contender_paths, est_futures, estimates,
    result, error, call, ret, files, np_random, fake_random>>

\* State of the direct calls; the comparison pipeline never touches it.
call_vars == <<call, ret, files, np_random, fake_random>>

inputs == <<op, formats, tables, baseline, contenders, max_workers>>

Init ==
  /\ op \in {"compare_formats_tables", "compare_formats"}
  /\ IF op = "compare_formats_tables"
     THEN /\ max_workers \in {1, MaxWorkers}
          /\ formats \in FormatLists
          /\ tables \in TableMaps
          /\ Len(formats) * SumLen(tables) <= MaxTasks
          /\ baseline = None
          /\ contenders = <<>>
     ELSE /\ max_workers = DefaultMaxWorkers
          /\ formats = <<>>
          /\ tables = <<>>
          /\ baseline \in {<<f>> : f \in FormatSet}
          /\ contenders \in ContenderMaps
  /\ pc = "start"
  /\ futures = <<>>
  /\ yielded = {}
  /\ groups = <<>>
  /\ baseline_path = None
  /\ contender_paths = <<>>
  /\ est_futures = <<>>
  /\ estimates = <<>>
  /\ result = <<>>
  /\ error = "none"
  /\ call = None
  /\ ret = None
  /\ files = {}
  /\ np_random = 0
  /\ fake_random = <<>>

\* ---- the worker pool (ThreadPoolExecutor) ----
\* A pool in which the orchestrating call itself occupies one worker.
RunningWithOrchestrator ==
  1 + Cardinality({i \in DOMAIN futures : futures[i].status = "running"})
    + Cardinality({i \in DOMAIN est_futures : est_futures[i].status = "running"})

Running ==
  Cardinality({i \in DOMAIN futures : futures[i].status = "running"})
  + Cardinality({i \in DOMAIN est_futures : est_futures[i].status = "running"})

Finished(f) == f.status \in {"done", "failed", "cancelled"}

\* The work queue is FIFO: nothing submitted earlier is still pending.
NextWrite(i) ==
  /\ futures[i].status = "pending"
  /\ \A j \in 1..(i - 1) : futures[j].status # "pending"

NextEstimate(i) ==
  /\ est_futures[i].status = "pending"
  /\ \A j \in DOMAIN futures : futures[j].status # "pending"
  /\ \A j \in 1..(i - 1) : est_futures[j].status # "pending"

\* A free worker takes the next write future off the queue.
StartWrite(i) ==
  /\ NextWrite(i)
  /\ Running < max_workers
  /\ futures' = [futures EXCEPT ![i].status = "running"]
  /\ UNCHANGED <<call_vars, inputs, pc, yielded, groups, baseline_path, contender_paths,
                 est_futures, estimates, result, error>>

\* A write task that files its own path under its bucket from the worker.
FinishWriteAppending(i) ==
  /\ futures[i].status = "running"
  /\ \E o \in WriteOutcomes(futures[i].fmt, futures[i].name, futures[i].prefix) :
       /\ futures' = [futures EXCEPT ![i].status = IF o.ok THEN "done" ELSE "failed",
                                     ![i].outcome = o]
       /\ groups' = IF o.ok
                    THEN Append(groups, [key |-> futures[i].key,
                                         paths |-> <<o.path>>])
                    ELSE groups
  /\ UNCHANGED <<call_vars, inputs, pc, yielded, baseline_path, contender_paths,
                 est_futures, estimates, result, error>>

\* fmt.write returns or raises; the future holds the outcome.
FinishWrite(i) ==
  /\ futures[i].status = "running"
  /\ \E o \in WriteOutcomes(futures[i].fmt, futures[i].name, futures[i].prefix) :
       futures' = [futures EXCEPT ![i].status = IF o.ok THEN "done" ELSE "failed",
                                  ![i].outcome = o]
  /\ UNCHANGED <<call_vars, inputs, pc, yielded, groups, baseline_path, contender_paths,
                 est_futures, estimates, result, error>>

StartEstimate(i) ==
  /\ NextEstimate(i)
  /\ Running < max_workers
  /\ est_futures' = [est_futures EXCEPT ![i].status = "running"]
  /\ UNCHANGED <<call_vars, inputs, pc, futures, yielded, groups, baseline_path,
                 contender_paths, estimates, result, error>>

FinishEstimate(i) ==
  /\ est_futures[i].status = "running"
  /\ \E de \in EstimateDe(est_futures[i].paths) :
       \E xet \in EstimateXet(est_futures[i].paths) :
         LET o == estimate(est_futures[i].paths, de, xet)
         IN  est_futures' =
               [est_futures EXCEPT ![i].status = IF o.ok THEN "done" ELSE "failed",
                                   ![i].outcome = o]
  /\ UNCHANGED <<call_vars, inputs, pc, futures, yielded, groups, baseline_path,
                 contender_paths, estimates, result, error>>
\* ---- compare_formats_tables ----
RECURSIVE Flatten(_)
Flatten(seqs) == IF seqs = <<>> THEN <<>> ELSE Head(seqs) \o Flatten(Tail(seqs))

Future(key, fmt, entry, prefix) ==
  [key |-> key, fmt |-> fmt, name |-> entry, prefix |-> prefix,
   status |-> "pending", outcome |-> None]

\* The submission loop: one write future per (table, format, entry), the
\* futures dict mapping each to (table_name, fmt).
SubmittedWrites ==
  Flatten([t \in 1..Len(tables) |->
    Flatten([f \in 1..Len(formats) |->
      [e \in 1..Len(tables[t].data) |->
         Future(<<tables[t].table_name, formats[f]>>, formats[f],
                tables[t].data[e],
                directory \o <<tables[t].table_name, name(formats[f])>>)]])])

SubmitWrites ==
  /\ op = "compare_formats_tables"
  /\ pc = "start"
  /\ futures' = SubmittedWrites
  /\ pc' = "collect"
  /\ UNCHANGED <<call_vars, inputs, yielded, groups, baseline_path, contender_paths,
                 est_futures, estimates, result, error>>

\* groups[key].append(path) on a defaultdict(list) that keeps insertion order.
GroupAppend(g, key, path) ==
  IF \E k \in DOMAIN g : g[k].key = key
  THEN [k \in DOMAIN g |->
          IF g[k].key = key THEN [g[k] EXCEPT !.paths = Append(@, path)]
          ELSE g[k]]
  ELSE Append(g, [key |-> key, paths |-> <<path>>])

\* The as_completed loop with the write's exception swallowed: a failed
\* future is skipped and the loop goes on.
CollectGroupSwallow(i) ==
  /\ op = "compare_formats_tables"
  /\ pc = "collect"
  /\ i \notin yielded
  /\ Finished(futures[i])
  /\ yielded' = yielded \cup {i}
  /\ IF futures[i].status = "done"
     THEN groups' = GroupAppend(groups, futures[i].key, futures[i].outcome.path)
     ELSE UNCHANGED groups
  /\ UNCHANGED <<call_vars, inputs, pc, error, futures, baseline_path, contender_paths,
                 est_futures, estimates, result>>

\* One iteration of the as_completed loop: future.result() returns the path
\* or re-raises the write's exception out of the with block.
CollectGroup(i) ==
  /\ op = "compare_formats_tables"
  /\ pc = "collect"
  /\ i \notin yielded
  /\ Finished(futures[i])
  /\ yielded' = yielded \cup {i}
  /\ IF futures[i].status = "done"
     THEN /\ groups' = GroupAppend(groups, futures[i].key, futures[i].outcome.path)
          /\ UNCHANGED <<pc, error>>
     ELSE /\ error' = futures[i].outcome.error
          /\ pc' = "shutdown"
          /\ UNCHANGED groups
  /\ UNCHANGED <<call_vars, inputs, futures, baseline_path, contender_paths, est_futures,
                 estimates, result>>

EstimateFuture(paths) == [paths |-> paths, status |-> "pending", outcome |-> None]

\* The estimates submitted as soon as some group has a path, without waiting
\* for the rest of the write futures.
SubmitEstimatesEarly ==
  /\ op = "compare_formats_tables"
  /\ pc = "collect"
  /\ groups # <<>> \/ yielded = DOMAIN futures
  /\ est_futures' = [k \in DOMAIN groups |-> EstimateFuture(groups[k].paths)]
  /\ pc' = "zip"
  /\ UNCHANGED <<call_vars, inputs, futures, yielded, groups, baseline_path,
                 contender_paths, estimates, result, error>>

\* keys = list(groups.keys()); results = executor.map(estimate, groups.values())
SubmitEstimates ==
  /\ op = "compare_formats_tables"
  /\ pc = "collect"
  /\ yielded = DOMAIN futures
  /\ est_futures' = [k \in DOMAIN groups |-> EstimateFuture(groups[k].paths)]
  /\ pc' = "zip"
  /\ UNCHANGED <<call_vars, inputs, futures, yielded, groups, baseline_path,
                 contender_paths, estimates, result, error>>

\* The first future, in order, whose result() raises.
FirstFailed(fs) ==
  {i \in DOMAIN fs :
     /\ fs[i].status = "failed"
     /\ \A j \in 1..(i - 1) : fs[j].status = "done"}

\* The result iterator's finally clause cancels what has not started.
CancelPending(fs) ==
  [i \in DOMAIN fs |->
     IF fs[i].status = "pending" THEN [fs[i] EXCEPT !.status = "cancelled"]
     ELSE fs[i]]

\* estimates = dict(zip(keys, results)), consuming the results in order.
ZipEstimates ==
  /\ op = "compare_formats_tables"
  /\ pc = "zip"
  /\ \/ /\ \A i \in DOMAIN est_futures : est_futures[i].status = "done"
        /\ estimates' = [k \in DOMAIN est_futures |->
                           [key |-> groups[k].key,
                            data |-> est_futures[k].outcome.data]]
        /\ UNCHANGED <<est_futures, error>>
     \/ \E i \in FirstFailed(est_futures) :
          /\ error' = est_futures[i].outcome.error
          /\ est_futures' = CancelPending(est_futures)
          /\ UNCHANGED estimates
  /\ pc' = "shutdown"
  /\ UNCHANGED <<call_vars, inputs, futures, yielded, groups, baseline_path,
                 contender_paths, result>>

\* ---- compare_formats ----
SubmittedCompare ==
  <<Future("baseline", baseline[1], "baseline", directory)>>
  \o [c \in 1..Len(contenders) |->
        Future(contenders[c].name, contenders[c].fmt, contenders[c].name,
               directory)]

SubmitCompare ==
  /\ op = "compare_formats"
  /\ pc = "start"
  /\ futures' = SubmittedCompare
  /\ pc' = "baseline"
  /\ UNCHANGED <<call_vars, inputs, yielded, groups, baseline_path, contender_paths,
                 est_futures, estimates, result, error>>

\* baseline_path = baseline_future.result()
CollectBaseline ==
  /\ op = "compare_formats"
  /\ pc = "baseline"
  /\ Finished(futures[1])
  /\ IF futures[1].status = "done"
     THEN /\ baseline_path' = <<futures[1].outcome.path>>
          /\ pc' = "collect"
          /\ UNCHANGED error
     ELSE /\ error' = futures[1].outcome.error
          /\ pc' = "shutdown"
          /\ UNCHANGED baseline_path
  /\ UNCHANGED <<call_vars, inputs, futures, yielded, groups, contender_paths,
                 est_futures, estimates, result>>

\* d[key] = value on a dict that keeps insertion order.
DictSet(d, key, value) ==
  IF \E k \in DOMAIN d : d[k].name = key
  THEN [k \in DOMAIN d |->
          IF d[k].name = key THEN [d[k] EXCEPT !.path = value] ELSE d[k]]
  ELSE Append(d, [name |-> key, path |-> value])

\* contender_paths[futures[future]] = future.result()
CollectContender(i) ==
  /\ op = "compare_formats"
  /\ pc = "collect"
  /\ i \in 2..Len(futures)
  /\ i \notin yielded
  /\ Finished(futures[i])
  /\ yielded' = yielded \cup {i}
  /\ IF futures[i].status = "done"
     THEN /\ contender_paths' =
               DictSet(contender_paths, futures[i].key, futures[i].outcome.path)
          /\ UNCHANGED <<pc, error>>
     ELSE /\ error' = futures[i].outcome.error
          /\ pc' = "shutdown"
          /\ UNCHANGED contender_paths
  /\ UNCHANGED <<call_vars, inputs, futures, groups, baseline_path, est_futures,
                 estimates, result>>

\* The pairs built contender first: [contender_paths[name], baseline_path].
SubmitPairsSwapped ==
  /\ op = "compare_formats"
  /\ pc = "collect"
  /\ yielded = 2..Len(futures)
  /\ est_futures' =
       [k \in DOMAIN contender_paths |->
          EstimateFuture(<<contender_paths[k].path, baseline_path[1]>>)]
  /\ pc' = "shutdown"
  /\ UNCHANGED <<call_vars, inputs, futures, yielded, groups, baseline_path,
                 contender_paths, estimates, result, error>>

\* names = list(contender_paths.keys()); the pairs [baseline, contender]
\* are mapped over estimate; the with block then ends.
SubmitPairs ==
  /\ op = "compare_formats"
  /\ pc = "collect"
  /\ yielded = 2..Len(futures)
  /\ est_futures' =
       [k \in DOMAIN contender_paths |->
          EstimateFuture(<<baseline_path[1], contender_paths[k].path>>)]
  /\ pc' = "shutdown"
  /\ UNCHANGED <<call_vars, inputs, futures, yielded, groups, baseline_path,
                 contender_paths, estimates, result, error>>

ContenderFormat(n) ==
  (CHOOSE c \in DOMAIN contenders : contenders[c].name = n) 

\* The return statement: zip(names, estimates) consumed in order.
ZipCompare ==
  /\ op = "compare_formats"
  /\ pc = "zip"
  /\ IF FirstFailed(est_futures) = {}
     THEN /\ result' =
               [k \in DOMAIN est_futures |->
                  EstimationResult(
                    contenders[ContenderFormat(contender_paths[k].name)].fmt,
                    "param-impact", est_futures[k].outcome.data)]
          /\ pc' = "returned"
          /\ UNCHANGED error
     ELSE /\ error' = est_futures[CHOOSE i \in FirstFailed(est_futures) : TRUE]
                        .outcome.error
          /\ pc' = "raised"
          /\ UNCHANGED result
  /\ UNCHANGED <<call_vars, inputs, futures, yielded, groups, baseline_path,
                 contender_paths, est_futures, estimates>>

\* ---- leaving the with block: executor.shutdown(wait=True) ----
ExitPool ==
  /\ pc = "shutdown"
  /\ \A i \in DOMAIN futures : Finished(futures[i])
  /\ \A i \in DOMAIN est_futures : Finished(est_futures[i])
  /\ IF error # "none"
     THEN pc' = "raised" /\ UNCHANGED result
     ELSE IF op = "compare_formats"
     THEN pc' = "zip" /\ UNCHANGED result
     ELSE /\ pc' = "returned"
          /\ result' = [k \in DOMAIN estimates |->
                          EstimationResult(estimates[k].key[2],
                                           estimates[k].key[1],
                                           estimates[k].data)]
  /\ UNCHANGED <<call_vars, inputs, futures, yielded, groups, baseline_path,
                 contender_paths, est_futures, estimates, error>>

Next ==
  \/ SubmitWrites
  \/ SubmitCompare
  \/ \E i \in DOMAIN futures : StartWrite(i)
  \/ \E i \in DOMAIN futures : FinishWrite(i)
  \/ \E i \in DOMAIN futures : CollectGroup(i)
  \/ SubmitEstimates
  \/ \E i \in DOMAIN est_futures : StartEstimate(i)
  \/ \E i \in DOMAIN est_futures : FinishEstimate(i)
  \/ ZipEstimates
  \/ CollectBaseline
  \/ \E i \in DOMAIN futures : CollectContender(i)
  \/ SubmitPairs
  \/ ExitPool
  \/ ZipCompare

Spec == Init /\ [][Next]_vars

\* The runs in which every submitted task terminates: a free worker thread
\* takes the next queued task, a running task returns or raises, and the
\* orchestrating thread takes its next step when it can.
FairSpec == Spec /\ WF_vars(Next)

\* =================================================================
\* Properties
\* =================================================================
Range(seq) == {seq[k] : k \in DOMAIN seq}

TablesRun == op = "compare_formats_tables"
CompareRun == op = "compare_formats"
Terminated == pc \in {"returned", "raised"}

Distinct(seq) == \A a, b \in DOMAIN seq : a # b => seq[a] # seq[b]

\* The write futures of the bucket (table_name, fmt).
BucketFutures(key) == {i \in DOMAIN futures : futures[i].key = key}

SomeWriteFailed == \E i \in DOMAIN futures : futures[i].status = "failed"

DataOf(table_name) ==
  tables[CHOOSE t \in DOMAIN tables : tables[t].table_name = table_name].data

\* ---- C1 ----
\* C1: when every write and every estimate succeeded, compare_formats_tables
\* returns exactly m*v records, one for each (variant, format) pair of its
\* inputs, also when two entries of formats are equal.  (Stated here for
\* runs whose data maps all have entries.)
C1_OneRecordPerPair ==
  (/\ TablesRun
   /\ pc = "returned"
   /\ \A t \in DOMAIN tables : tables[t].data # <<>>) =>
    /\ Len(result) = Len(formats) * Len(tables)
    /\ \A t \in DOMAIN tables : \A f \in DOMAIN formats :
         \E k \in DOMAIN result :
           /\ result[k].group = tables[t].table_name
           /\ result[k].format = formats[f]

\* ---- C2 ----
\* C2: when a write fails, the run still ends by returning the records of
\* every sibling bucket whose writes all succeeded; the failure does not
\* replace the result list.
C2_SiblingRecordsReturned ==
  (TablesRun /\ Terminated /\ SomeWriteFailed) =>
    \A i \in DOMAIN futures :
      (\A j \in BucketFutures(futures[i].key) : futures[j].status = "done") =>
        \/ \E k \in DOMAIN result :
             /\ result[k].group = futures[i].key[1]
             /\ result[k].format = futures[i].key[2]
        \/ error = "ZeroDivisionError"

\* ---- C3 ----
\* C3: a failed write never vanishes: every estimate is invoked with the
\* paths of all the writes of its bucket, none of which failed, and a run in
\* which a write failed ends by raising that write's error with no result.
C3_FailureSurfaced ==
  TablesRun =>
    /\ \A k \in DOMAIN est_futures :
         \A i \in BucketFutures(groups[k].key) :
           /\ futures[i].status = "done"
           /\ futures[i].outcome.path \in Range(est_futures[k].paths)
    /\ (Terminated /\ SomeWriteFailed) =>
         /\ pc = "raised"
         /\ result = <<>>
         /\ \E i \in DOMAIN futures :
              futures[i].status = "failed" /\ error = futures[i].outcome.error

\* A run that raised after one entry of a bucket was written and another
\* entry of the same bucket failed.
C3_Witness ==
  /\ TablesRun
  /\ pc = "raised"
  /\ \E i, j \in DOMAIN futures :
       /\ futures[i].key = futures[j].key
       /\ futures[i].status = "failed"
       /\ futures[j].status = "done"

\* ---- C4 ----
\* The file a write future opens for writing (ParquetRs with explicit
\* CdcParams raises before it derives one).
Writes(i) == \E o \in WriteOutcomes(futures[i].fmt, futures[i].name, futures[i].prefix) : o.ok
Dest(i) == derive_path(futures[i].fmt, futures[i].name, futures[i].prefix)

\* C4: with pairwise distinct formats, no two write tasks of a run target
\* the same destination file.
C4_DistinctDestinations ==
  (TablesRun /\ Distinct(formats)) =>
    \A i, j \in DOMAIN futures :
      (i # j /\ Writes(i) /\ Writes(j)) => Dest(i) # Dest(j)

\* ---- C5 ----
\* sorted() over the entry names of the model.
EntryRank(entry) == IF entry = "edit" THEN 1 ELSE 2

SortedPaths(key) ==
  LET fs == BucketFutures(key)
  IN  [n \in 1..Cardinality(fs) |->
         futures[CHOOSE i \in fs :
                   Cardinality({j \in fs : EntryRank(futures[j].name)
                                             < EntryRank(futures[i].name)}) = n - 1]
           .outcome.path]

\* C5: the estimator receives the paths of a bucket sorted by entry name,
\* whatever the order in which the writes finished.
C5_PathsSortedByEntry ==
  (TablesRun /\ Distinct(formats)) =>
    \A k \in DOMAIN est_futures :
      est_futures[k].paths = SortedPaths(groups[k].key)

\* ---- C6 ----
FormatIndex(fmt) == CHOOSE f \in DOMAIN formats : formats[f] = fmt

\* C6: the records of a variant come in the order of the formats argument,
\* and the records of compare_formats in the order of the contenders.
C6_ResultInArgumentOrder ==
  pc = "returned" =>
    /\ (TablesRun /\ Distinct(formats)) =>
         \A a, b \in DOMAIN result :
           (a < b /\ result[a].group = result[b].group) =>
             FormatIndex(result[a].format) < FormatIndex(result[b].format)
    /\ CompareRun =>
         \A k \in DOMAIN result : result[k].format = contenders[k].fmt

\* ---- C7 ----
\* C7: once the estimate of a bucket has been submitted, no entry write of
\* that bucket is still pending or running.
C7_EstimateAfterWrites ==
  TablesRun =>
    \A k \in DOMAIN est_futures :
      \A i \in BucketFutures(groups[k].key) :
        futures[i].status \notin {"pending", "running"}

\* The estimate of a bucket of two entries is running.
C7_Witness ==
  /\ TablesRun
  /\ \E k \in DOMAIN est_futures :
       /\ est_futures[k].status = "running"
       /\ Cardinality(BucketFutures(groups[k].key)) = 2

\* ---- C8 ----
\* C8: every returned record has numfiles equal to the number of entries of
\* its variant's data map.
C8_NumfilesIsEntryCount ==
  (TablesRun /\ pc = "returned") =>
    \A k \in DOMAIN result :
      result[k].numfiles = Len(DataOf(result[k].group))

\* ---- C9 ----
\* C9: compare_formats submits one baseline write and returns one record
\* per contender, computed from [baseline path, contender path] and labelled
\* with that contender's format.
C9_BaselinePairs ==
  (CompareRun /\ pc = "returned") =>
    /\ Cardinality({i \in DOMAIN futures : futures[i].key = "baseline"}) = 1
    /\ Len(result) = Len(contenders)
    /\ \A c \in DOMAIN contenders :
         \E k \in DOMAIN result :
           /\ est_futures[k].paths =
                <<derive_path(baseline[1], "baseline", directory),
                  derive_path(contenders[c].fmt, contenders[c].name, directory)>>
           /\ result[k].format = contenders[c].fmt
           /\ result[k] = EstimationResult(contenders[c].fmt, "param-impact",
                                           est_futures[k].outcome.data)
           /\ \A k2 \in DOMAIN result :
                est_futures[k2].paths[2] = est_futures[k].paths[2] => k2 = k

\* Two contenders of different formats were returned, the second contender
\* having been collected first.
C9_Witness ==
  /\ CompareRun
  /\ pc = "returned"
  /\ Len(result) = 2
  /\ contender_paths[1].name = "c2"
  /\ contenders[1].fmt # contenders[2].fmt

\* ---- C10 ----
\* C10: every record's ratios are its own chunk_bytes and xet_bytes over its
\* own non-zero total_len, with 0 < dedup_ratio <= 1.
C10_RatioOfOwnTotal ==
  \A k \in DOMAIN result :
    /\ result[k].total_len > 0
    /\ result[k].dedup_ratio[2] > 0
    /\ result[k].dedup_ratio[1] * result[k].total_len
         = result[k].chunk_bytes * result[k].dedup_ratio[2]
    /\ result[k].xet_dedup_ratio[2] > 0
    /\ result[k].xet_dedup_ratio[1] * result[k].total_len
         = result[k].xet_bytes * result[k].xet_dedup_ratio[2]
    /\ 0 < result[k].dedup_ratio[1]
    /\ result[k].dedup_ratio[1] <= result[k].dedup_ratio[2]

\* Two records of one run with different total_len and different ratios.
C10_Witness ==
  /\ pc = "returned"
  /\ \E a, b \in DOMAIN result :
       /\ result[a].total_len # result[b].total_len
       /\ result[a].dedup_ratio # result[b].dedup_ratio

\* =================================================================
\* Direct calls of de/formats.py: fmt.derive_path and fmt.write
\* =================================================================

\* The comparison pipeline is not running.
pipeline_vars ==
  <<formats, tables, baseline, contenders, max_workers, futures, yielded,
    groups, baseline_path, contender_paths, est_futures, estimates, result>>

PipelineIdle ==
  /\ formats = <<>>
  /\ tables = <<>>
  /\ baseline = None
  /\ contenders = <<>>
  /\ max_workers = DefaultMaxWorkers
  /\ futures = <<>>
  /\ yielded = {}
  /\ groups = <<>>
  /\ baseline_path = None
  /\ contender_paths = <<>>
  /\ est_futures = <<>>
  /\ estimates = <<>>
  /\ result = <<>>

\* Formats a caller can build from the four FileFormat classes.
WriteFormats ==
  FormatSet
  \cup {ParquetCpp(CdcExplicit, <<"snappy">>, None),
        ParquetRs(CdcOff, None),
        ParquetRs(CdcOn, <<"zstd">>),
        JsonLines(None),
        JsonLines(<<"gzip">>),
        Sqlite(None)}

\* src: pa.Table | Path, by what a reader sees in it.
Sources ==
  {[kind |-> k, num_rows |-> 2, schema |-> "a:int64", data |-> "rows"] :
     k \in {"Table", "Path"}}

\* What pq.read_table(src) / pq.ParquetFile(src).metadata report of src.
Contents(src) ==
  [num_rows |-> src.num_rows, schema |-> src.schema, data |-> src.data]

\* What the writer (pyarrow, de.core, pandas, sqlite3) can leave at dest:
\* the source's content, or content with a row lost, with another schema,
\* or with other values in the same rows.
WrittenArtifacts(src) ==
  {Contents(src),
   [Contents(src) EXCEPT !.num_rows = src.num_rows - 1],
   [Contents(src) EXCEPT !.schema = "a:double"],
   [Contents(src) EXCEPT !.data = "other rows"]}

\* ParquetCpp.write, the sanity_check branches: metadata of both files for a
\* Path source, src.equals(pq.read_table(dest)) for a Table source.
SanityCheck(src, artifact) ==
  IF src.kind = "Path"
  THEN /\ src.num_rows = artifact.num_rows
       /\ src.schema = artifact.schema
  ELSE Contents(src) = artifact

\* tempfile.NamedTemporaryFile(suffix=".parquet", delete=False)
TmpPath == <<"tmp", "tmpfile.parquet">>

InitFormats ==
  /\ op \in {"derive_path", "write"}
  /\ IF op = "derive_path"
     THEN call \in [fmt : WriteFormats, name : {"original", "edit"},
                    directory : {directory}]
     ELSE call \in [fmt : WriteFormats, name : {"original", "edit"},
                    directory : {directory}, src : Sources,
                    sanity_check : BOOLEAN]
  /\ pc = "call"
  /\ ret = None
  /\ files = {}
  /\ error = "none"
  /\ np_random = 0
  /\ fake_random = <<>>
  /\ PipelineIdle

\* fmt.derive_path(name, directory)
DerivePath ==
  /\ op = "derive_path"
  /\ pc = "call"
  /\ ret' = <<derive_path(call.fmt, call.name, call.directory)>>
  /\ pc' = "returned"
  /\ UNCHANGED <<op, call, files, error, np_random, fake_random, pipeline_vars>>

\* ParquetCpp.write
ParquetCppWrite ==
  /\ op = "write"
  /\ pc = "call"
  /\ call.fmt.cls = "ParquetCpp"
  /\ LET dest == derive_path(call.fmt, call.name, call.directory)
     IN  \E artifact \in WrittenArtifacts(call.src) :
           /\ files' = files \cup {[path |-> dest, content |-> artifact]}
           /\ IF call.sanity_check /\ ~SanityCheck(call.src, artifact)
              THEN pc' = "raised" /\ error' = "AssertionError" /\ UNCHANGED ret
              ELSE pc' = "returned" /\ ret' = <<dest>> /\ UNCHANGED error
  /\ UNCHANGED <<op, call, np_random, fake_random, pipeline_vars>>

\* A write that rewrites with cdc=True when given CdcParams.
ParquetRsWriteIgnoring ==
  /\ op = "write"
  /\ pc = "call"
  /\ call.fmt.cls = "ParquetRs"
  /\ LET dest == derive_path(call.fmt, call.name, call.directory)
         tmp == IF call.src.kind = "Path" THEN {}
                ELSE {[path |-> TmpPath, content |-> Contents(call.src)]}
     IN  \E artifact \in WrittenArtifacts(call.src) :
           /\ files' = files \cup tmp \cup {[path |-> dest, content |-> artifact]}
           /\ pc' = "returned"
           /\ ret' = <<dest>>
           /\ UNCHANGED error
  /\ UNCHANGED <<op, call, np_random, fake_random, pipeline_vars>>

\* ParquetRs.write; **kwargs takes sanity_check and nothing reads it.
ParquetRsWrite ==
  /\ op = "write"
  /\ pc = "call"
  /\ call.fmt.cls = "ParquetRs"
  /\ IF call.fmt.use_cdc.isParams
     THEN /\ pc' = "raised"
          /\ error' = "ValueError"
          /\ UNCHANGED <<ret, files>>
     ELSE LET dest == derive_path(call.fmt, call.name, call.directory)
              tmp == IF call.src.kind = "Path" THEN {}
                     ELSE {[path |-> TmpPath, content |-> Contents(call.src)]}
          IN  \E artifact \in WrittenArtifacts(call.src) :
                /\ files' = files \cup tmp
                              \cup {[path |-> dest, content |-> artifact]}
                /\ pc' = "returned"
                /\ ret' = <<dest>>
                /\ UNCHANGED error
  /\ UNCHANGED <<op, call, np_random, fake_random, pipeline_vars>>

\* JsonLines.write; **kwargs takes sanity_check and nothing reads it.
JsonLinesWrite ==
  /\ op = "write"
  /\ pc = "call"
  /\ call.fmt.cls = "JsonLines"
  /\ LET path == derive_path(call.fmt, call.name, call.directory)
     IN  \E artifact \in WrittenArtifacts(call.src) :
           /\ files' = files \cup {[path |-> path, content |-> artifact]}
           /\ pc' = "returned"
           /\ ret' = <<path>>
  /\ UNCHANGED <<op, call, error, np_random, fake_random, pipeline_vars>>

\* Sqlite.write; **kwargs takes sanity_check and nothing reads it.
SqliteWrite ==
  /\ op = "write"
  /\ pc = "call"
  /\ call.fmt.cls = "Sqlite"
  /\ LET path == derive_path(call.fmt, call.name, call.directory)
     IN  \E artifact \in WrittenArtifacts(call.src) :
           /\ files' = files \cup {[path |-> path, content |-> artifact]}
           /\ pc' = "returned"
           /\ ret' = <<path>>
  /\ UNCHANGED <<op, call, error, np_random, fake_random, pipeline_vars>>

NextFormats ==
  \/ DerivePath
  \/ ParquetCppWrite
  \/ ParquetRsWrite
  \/ JsonLinesWrite
  \/ SqliteWrite

SpecFormats == InitFormats /\ [][NextFormats]_vars

\* ---- properties of the direct format calls ----
WriteCall == op = "write"

\* The artifact a write() call left at the destination it derives.
DestContent ==
  {f.content : f \in {g \in files :
     g.path = derive_path(call.fmt, call.name, call.directory)}}

\* C11: for every FileFormat, write(..., sanity_check=True) returns a path
\* only if the artifact re-read from the destination has the source's row
\* count and schema.
C11_SanityCheckedReturn ==
  (WriteCall /\ pc = "returned" /\ call.sanity_check)
    => \A content \in DestContent :
         /\ content.num_rows = call.src.num_rows
         /\ content.schema = call.src.schema

\* C12: ParquetRs.write with explicit CdcParams raises ValueError for Table
\* and Path sources alike, and no file has been written when it does.
C12_CdcParamsRejected ==
  (WriteCall /\ call.fmt.cls = "ParquetRs" /\ call.fmt.use_cdc.isParams
     /\ pc # "call")
    => /\ pc = "raised"
       /\ error = "ValueError"
       /\ ret = None
       /\ files = {}

C12_Witness ==
  /\ WriteCall
  /\ call.fmt.cls = "ParquetRs"
  /\ call.fmt.use_cdc.isParams
  /\ call.src.kind = "Table"
  /\ pc = "raised"
  /\ error = "ValueError"

\* The file name <name>[-<codec>][-cdc].<suffix> spelled out case by case.
ExpectedFileName(fmt, entry) ==
  LET codec == fmt.compression
      cdc == IF fmt.cls \in {"ParquetCpp", "ParquetRs"}
             THEN Truthy(fmt.use_cdc) ELSE FALSE
      ext == CASE fmt.cls \in {"ParquetCpp", "ParquetRs"} -> ".parquet"
               [] fmt.cls = "JsonLines" -> ".jsonlines"
               [] fmt.cls = "Sqlite" -> ".sqlite"
  IN  CASE codec = None /\ ~cdc -> entry \o ext
        [] codec = None /\ cdc -> entry \o "-cdc" \o ext
        [] codec # None /\ ~cdc -> entry \o "-" \o codec[1] \o ext
        [] codec # None /\ cdc -> entry \o "-" \o codec[1] \o "-cdc" \o ext

\* C13: derive_path returns directory/<name>-<paramstem>.<suffix>, and
\* directory/<name>.<suffix> without a dash when paramstem is empty, where
\* paramstem is the codec (if set) then "cdc" (if use_cdc is enabled) joined
\* by "-"; the path depends on nothing but the name, the format and the
\* directory.
C13_DerivedPath ==
  (op = "derive_path" /\ pc = "returned")
    => ret = <<Append(call.directory, ExpectedFileName(call.fmt, call.name))>>

C13_Witness ==
  /\ op = "derive_path"
  /\ pc = "returned"
  /\ call.fmt.cls = "ParquetCpp"
  /\ call.fmt.compression = <<"zstd">>
  /\ Truthy(call.fmt.use_cdc)
  /\ ret = <<<<"dir", "original-zstd-cdc.parquet">>>>

\* =================================================================
\* de/synthetic.py: DataGenerator and FakeDataGenerator
\* =================================================================

\* dtype tags of a schema; a schema is a dict dtype, by its items in order.
IntType == [kind |-> "int"]
StrType == [kind |-> "str"]
DictType(fields) == [kind |-> "dict", fields |-> fields]
\* A list dtype [T] holds its element dtype; [] holds none.
ListType(elem) == [kind |-> "list", elem |-> elem]
\* Any dtype no branch of generate_data knows.
DateType == [kind |-> "date"]

SchemaA == DictType(<<[name |-> "a", dtype |-> IntType]>>)
SchemaAB ==
  DictType(<<[name |-> "a", dtype |-> IntType], [name |-> "b", dtype |-> StrType]>>)

\* The random streams: np is the position of numpy's process-wide np.random,
\* which nothing in the package seeds; fake is <<seed, draws made>> of the
\* random.Random behind self.fake, seeded by the constructor.  A draw's
\* value is the position it is drawn at, so two draws give equal values
\* exactly when they are the same draw of the same stream.
Streams(np, fake) == [np |-> np, fake |-> fake]

\* FakeDataGenerator.__init__: self.fake.random.seed(seed)
Seeded(seed) == <<seed, 0>>

\* np.random.randint(0, high) at a stream position: the draw reduced to
\* the range asked for.
randint(position, high) == position % high

\* lengths = np.random.randint(0, 5, size=num_samples)
ListLengths == 5

RECURSIVE SumSeq(_)
\* lengths.sum()
SumSeq(seq) == IF seq = <<>> THEN 0 ELSE Head(seq) + SumSeq(Tail(seq))

\* values[i : j] for 0 <= i of a Python list: both ends are clamped.
PySlice(values, i, j) ==
  SubSeq(values, i + 1, IF j < Len(values) THEN j ELSE Len(values))

\* An else branch that falls back to a column of nulls.
raise_unsupportedFallback(dtype, num_samples, st) ==
  [ok |-> TRUE, values |-> [i \in 1..num_samples |-> None], st |-> st]

\* raise ValueError("Unsupported data type: {}".format(dtype))
raise_unsupported(dtype, num_samples, st) ==
  [ok |-> FALSE, error |-> "ValueError", st |-> st]

RECURSIVE generate_data(_, _, _)
RECURSIVE generate_columns(_, _, _)

\* zip(*columns) turned into one dict per row: zip stops at the shortest
\* column, and no column gives no row.
ZipRows(fields, columns, num_samples) ==
  LET Shortest(k) ==
        \A j \in DOMAIN columns : Len(columns[k]) <= Len(columns[j])
      num == IF columns = <<>> THEN 0
             ELSE Len(columns[CHOOSE k \in DOMAIN columns : Shortest(k)])
      col(f) == CHOOSE j \in DOMAIN fields : fields[j].name = f
  IN  [r \in 1..num |->
         [f \in {fields[j].name : j \in DOMAIN fields} |-> columns[col(f)][r]]]

\* FakeDataGenerator.generate_data: int, float and bool values and the
\* lengths of strings and lists come from np.random, the text from
\* self.fake.  [0] + lengths adds 0 to every element of the numpy array
\* lengths, so np.cumsum([0] + lengths) is the running sum of lengths.
generate_data(dtype, num_samples, st) ==
  CASE dtype.kind \in {"int", "float", "bool"} ->
         [ok |-> TRUE,
          values |-> [i \in 1..num_samples |-> st.np + i - 1],
          st |-> [st EXCEPT !.np = @ + num_samples]]
    [] dtype.kind \in {"str", "largestr"} ->
         [ok |-> TRUE,
          values |-> [i \in 1..num_samples |->
                        [num_chars |-> st.np + i - 1,
                         text |-> <<st.fake[1], st.fake[2] + i - 1>>]],
          st |-> [np |-> st.np + num_samples,
                  fake |-> <<st.fake[1], st.fake[2] + num_samples>>]]
    [] dtype.kind = "dict" ->
         LET cols == generate_columns(dtype.fields, num_samples, st)
         IN  IF cols.ok
             THEN [ok |-> TRUE,
                   values |-> ZipRows(dtype.fields, cols.columns, num_samples),
                   st |-> cols.st]
             ELSE cols
    [] dtype.kind = "list" /\ dtype.elem # <<>> ->
         LET lengths == [i \in 1..num_samples |->
                           randint(st.np + i - 1, ListLengths)]
             drawn == generate_data(dtype.elem[1], SumSeq(lengths),
                                    [st EXCEPT !.np = @ + num_samples])
             offsets == [i \in 1..num_samples |-> SumSeq(SubSeq(lengths, 1, i))]
         IN  IF drawn.ok
             THEN [ok |-> TRUE,
                   values |-> [i \in 1..num_samples |->
                                 PySlice(drawn.values, offsets[i],
                                         offsets[i] + lengths[i])],
                   st |-> drawn.st]
             ELSE drawn
    [] OTHER -> raise_unsupported(dtype, num_samples, st)

\* [self.generate_data(field_type, num_samples) for field_type in dtype.values()]
generate_columns(fields, num_samples, st) ==
  IF fields = <<>> THEN [ok |-> TRUE, columns |-> <<>>, st |-> st]
  ELSE LET first == generate_data(Head(fields).dtype, num_samples, st)
       IN  IF ~first.ok THEN first
           ELSE LET rest == generate_columns(Tail(fields), num_samples, first.st)
                IN  IF ~rest.ok THEN rest
                    ELSE [ok |-> TRUE,
                          columns |-> <<first.values>> \o rest.columns,
                          st |-> rest.st]

\* FakeDataGenerator.generate_table: a table is the sequence of its rows.
generate_table(schema, num_rows, st) ==
  LET data == generate_data(schema, num_rows, st)
  IN  IF data.ok THEN [ok |-> TRUE, table |-> data.values, st |-> data.st]
      ELSE data

\* pa.array(data) of an empty list has the null type, not a struct type;
\* pa.Table.from_struct_array then raises or gives a table without rows
\* and columns, depending on the pyarrow build.
EmptyDataOutcomes ==
  {[ok |-> FALSE, error |-> "TypeError"], [ok |-> TRUE, table |-> <<>>]}

\* Edit points are floats num/PointDen; with a power of two as denominator
\* point * len(table) is exact in floating point.
PointDen == 4

\* int(point * len(table))
RowIndex(point, length) == (point * length) \div PointDen

Min(a, b) == IF a < b THEN a ELSE b

\* pa.Table.slice(offset, length): offset is clamped to the table, the slice
\* ends at the table's end, and a negative length gives no rows.
Slice(table, offset, length) ==
  LET off == Min(Len(table), offset)
  IN  SubSeq(table, off + 1, Min(Len(table), off + length))

\* zip([0] + edit_points, edit_points + [1])
Starts(edit_points) == <<0>> \o edit_points
Ends(edit_points) == edit_points \o <<PointDen>>

\* A delete_rows that drops the first edit_size rows of each segment.
delete_rowsAfterBoundary(table, edit_points, edit_size) ==
  LET piece(i) ==
        LET start_idx == RowIndex(Starts(edit_points)[i], Len(table))
            end_idx == RowIndex(Ends(edit_points)[i], Len(table))
        IN  IF Ends(edit_points)[i] = PointDen
            THEN Slice(table, start_idx, end_idx - start_idx)
            ELSE Slice(table, start_idx + edit_size,
                       end_idx - start_idx - edit_size)
  IN  Flatten([i \in 1..(Len(edit_points) + 1) |-> piece(i)])

\* DataGenerator.delete_rows
delete_rows(table, edit_points, edit_size) ==
  LET piece(i) ==
        LET start_idx == RowIndex(Starts(edit_points)[i], Len(table))
            end_idx == RowIndex(Ends(edit_points)[i], Len(table))
        IN  IF Ends(edit_points)[i] = PointDen
            THEN Slice(table, start_idx, end_idx - start_idx)
            ELSE Slice(table, start_idx, end_idx - start_idx - edit_size)
  IN  Flatten([i \in 1..(Len(edit_points) + 1) |-> piece(i)])

RECURSIVE insert_pieces(_, _, _, _, _, _)
\* The loop of insert_rows from segment i on: the slice, then
\* generate_table(edit_size) unless the segment ends at 1.
insert_pieces(schema, table, edit_points, edit_size, i, st) ==
  IF i > Len(edit_points) + 1 THEN [table |-> <<>>, st |-> st]
  ELSE LET start_idx == RowIndex(Starts(edit_points)[i], Len(table))
           end_idx == RowIndex(Ends(edit_points)[i], Len(table))
           kept == Slice(table, start_idx, end_idx - start_idx)
           fresh == IF Ends(edit_points)[i] # PointDen
                    THEN generate_table(schema, edit_size, st)
                    ELSE [table |-> <<>>, st |-> st]
           rest == insert_pieces(schema, table, edit_points, edit_size,
                                 i + 1, fresh.st)
       IN  [table |-> kept \o fresh.table \o rest.table, st |-> rest.st]

\* An insert_rows that also splices rows in at the final boundary.
insert_rowsAtEnd(schema, table, edit_points, edit_size, st) ==
  LET body == insert_pieces(schema, table, edit_points, edit_size, 1, st)
      fresh == generate_table(schema, edit_size, body.st)
  IN  [table |-> body.table \o fresh.table, st |-> fresh.st]

\* DataGenerator.insert_rows
insert_rows(schema, table, edit_points, edit_size, st) ==
  insert_pieces(schema, table, edit_points, edit_size, 1, st)

\* append_ratio is a float num/PointDen as well: int(ratio * len(table))
AppendCount(ratio, length) == (ratio * length) \div PointDen

\* An append_rows that rounds the number of new rows up.
append_rowsRoundedUp(schema, table, ratio, st) ==
  LET new_part == generate_table(schema, AppendCount(ratio, Len(table)) + 1, st)
  IN  [table |-> table \o new_part.table, st |-> new_part.st]

\* DataGenerator.append_rows
append_rows(schema, table, ratio, st) ==
  LET new_part == generate_table(schema, AppendCount(ratio, Len(table)), st)
  IN  [table |-> table \o new_part.table, st |-> new_part.st]

\* table.to_pandas(): a frame holds one value list per column.
ToPandas(table, names) == [c \in names |-> [r \in DOMAIN table |-> table[r][c]]]

\* pa.Table.from_pandas(df)
FromPandas(df, names, length) == [r \in 1..length |-> [c \in names |-> df[c][r]]]

ColumnNames(schema) == {schema.fields[j].name : j \in DOMAIN schema.fields}

\* The three nested loops of update_rows as the writes they make, in order:
\* for edit point i and column c the row int(place * len(df)) receives the
\* edits i*edit_size + j for j = 0 .. edit_size-1, so the last one stays.
\* place < 1 makes idx a label of the frame's index.
UpdatedFrame(df, edits_df, edit_points, columns, edit_size, length) ==
  LET lastPoint(r) ==
        CHOOSE i \in DOMAIN edit_points :
          /\ RowIndex(edit_points[i], length) = r - 1
          /\ \A k \in DOMAIN edit_points :
               RowIndex(edit_points[k], length) = r - 1 => k <= i
      written(r) ==
        \E i \in DOMAIN edit_points : RowIndex(edit_points[i], length) = r - 1
  IN  [c \in DOMAIN df |->
         [r \in 1..length |->
            IF written(r) /\ (\E k \in DOMAIN columns : columns[k] = c)
            THEN edits_df[c][(lastPoint(r) - 1) * edit_size + edit_size]
            ELSE df[c][r]]]

\* An update_rows that overwrites every column of the rows it edits.
update_rowsAllColumns(schema, table, edit_points, columns, edit_size, st) ==
  LET names == ColumnNames(schema)
      edits == generate_table(schema, Len(edit_points) * edit_size, st)
      all == [k \in 1..Len(schema.fields) |-> schema.fields[k].name]
      df == UpdatedFrame(ToPandas(table, names), ToPandas(edits.table, names),
                         edit_points, all, edit_size, Len(table))
  IN  [table |-> FromPandas(df, names, Len(table)), st |-> edits.st]

\* DataGenerator.update_rows
update_rows(schema, table, edit_points, columns, edit_size, st) ==
  LET names == ColumnNames(schema)
      edits == generate_table(schema, Len(edit_points) * edit_size, st)
      df == UpdatedFrame(ToPandas(table, names), ToPandas(edits.table, names),
                         edit_points, columns, edit_size, Len(table))
  IN  [table |-> FromPandas(df, names, Len(table)), st |-> edits.st]

\* update_rows(table, edit_points, columns, edit_size=10), and the value
\* generate_synthetic_tables leaves it at: it does not pass its edit_size on.
DefaultEditSize == 10

\* FakeDataGenerator(schema, seed=42)
DefaultSeed == 42

\* The assertions generate_synthetic_tables makes before it returns, by the
\* table whose length each one compares.
AssertedLaws == {"original", "updated", "deleted", "inserted"}

Variant(variants, key) ==
  variants[CHOOSE j \in DOMAIN variants : variants[j].name = key].table

\* len(table) == size, len(updated) == size,
\* len(deleted) == size - edit_size * len(edit_points),
\* len(inserted) == size + edit_size * len(edit_points)
AssertHolds(law, size, edit_points, edit_size, original, variants) ==
  CASE law = "original" -> Len(original) = size
    [] law = "updated" -> Len(Variant(variants, "updated")) = size
    [] law = "deleted" ->
         Len(Variant(variants, "deleted")) = size - edit_size * Len(edit_points)
    [] law = "inserted" ->
         Len(Variant(variants, "inserted")) = size + edit_size * Len(edit_points)

RECURSIVE update_columns_loopAllFields(_, _, _, _, _)
\* A loop that ignores the columns listed for a key and updates every column.
update_columns_loopAllFields(schema, table, edit_points, update_columns, st) ==
  IF update_columns = <<>> THEN [variants |-> <<>>, st |-> st]
  ELSE LET updated == update_rows(schema, table, edit_points,
                                  [k \in 1..Len(schema.fields) |->
                                     schema.fields[k].name],
                                  DefaultEditSize, st)
           rest == update_columns_loopAllFields(schema, table, edit_points,
                                                Tail(update_columns), updated.st)
       IN  [variants |-> <<[name |-> "updated_" \o Head(update_columns).key,
                            table |-> updated.table]>> \o rest.variants,
            st |-> rest.st]

RECURSIVE update_columns_loop(_, _, _, _, _)
\* for key, fields in (update_columns or {}).items():
\*     result[f"updated_{key}"] = self.update_rows(table, edit_points, columns=fields)
update_columns_loop(schema, table, edit_points, update_columns, st) ==
  IF update_columns = <<>> THEN [variants |-> <<>>, st |-> st]
  ELSE LET updated == update_rows(schema, table, edit_points,
                                  Head(update_columns).fields,
                                  DefaultEditSize, st)
           rest == update_columns_loop(schema, table, edit_points,
                                       Tail(update_columns), updated.st)
       IN  [variants |-> <<[name |-> "updated_" \o Head(update_columns).key,
                            table |-> updated.table]>> \o rest.variants,
            st |-> rest.st]

\* ---- inputs of the direct calls ----
\* edit_points: strictly increasing fractions in [0, 1), as np.linspace
\* gives them to the generator.
EditPlans ==
  {p \in UNION {[1..k -> 0..(PointDen - 1)] : k \in 1..MaxEdits} :
     \A i, j \in DOMAIN p : i < j => p[i] < p[j]}

\* append_ratio: 1/4, 1/2 or 1
Ratios == {1, 2, PointDen}

Schemas == {SchemaA, SchemaAB}

\* Schemas with list columns, nested structs and unsupported dtypes.
Column(n, dtype) == [name |-> n, dtype |-> dtype]

TableSchemas ==
  Schemas
  \cup {DictType(<<Column("c", ListType(<<IntType>>))>>),
        DictType(<<Column("a", IntType),
                   Column("s", DictType(<<Column("x", IntType)>>))>>),
        DictType(<<Column("a", IntType), Column("s", DictType(<<>>))>>),
        DictType(<<Column("d", DateType)>>),
        DictType(<<Column("a", IntType),
                   Column("s", DictType(<<Column("d", DateType)>>))>>),
        DictType(<<Column("c", ListType(<<DateType>>))>>),
        DictType(<<Column("c", ListType(<<>>))>>)}

\* dtypes of a list column
ListTypes == {ListType(<<IntType>>), ListType(<<StrType>>)}

\* columns: a non-empty list of the schema's column names
ColumnLists(schema) ==
  {<<schema.fields[j].name>> : j \in DOMAIN schema.fields}
  \cup {[k \in 1..Len(schema.fields) |-> schema.fields[k].name]}

\* update_columns: None or one named subset
UpdateColumns == {<<>>, <<[key |-> "a", fields |-> <<"a">>]>>}

SyntheticOps ==
  {"delete_rows", "insert_rows", "append_rows", "update_rows",
   "generate_synthetic_tables", "generate_table", "generate_data"}

\* The edit operations are called on a table the generator made; the other
\* calls start from a process in which np.random has been drawn from
\* np_random times.  The edit operations and generate_synthetic_tables ask
\* generate_table for at least one row; generate_table and generate_data
\* are also called directly, for any schema and for no row.
InitSynthetic ==
  /\ op \in SyntheticOps
  /\ \E schema \in Schemas, size \in 1..MaxRows, edit_points \in EditPlans,
        edit_size \in 1..MaxEditSize :
       LET base == generate_table(schema, size, Streams(0, Seeded(DefaultSeed)))
       IN  CASE op \in {"delete_rows", "insert_rows"} ->
                  /\ call = [schema |-> schema, table |-> base.table,
                             edit_points |-> edit_points,
                             edit_size |-> edit_size]
                  /\ np_random = base.st.np
                  /\ fake_random = base.st.fake
             [] op = "append_rows" ->
                  /\ \E ratio \in Ratios :
                       /\ AppendCount(ratio, size) >= 1
                       /\ call = [schema |-> schema, table |-> base.table,
                                  ratio |-> ratio]
                  /\ np_random = base.st.np
                  /\ fake_random = base.st.fake
             [] op = "update_rows" ->
                  /\ \E columns \in ColumnLists(schema) :
                       call = [schema |-> schema, table |-> base.table,
                               edit_points |-> edit_points,
                               columns |-> columns, edit_size |-> edit_size]
                  /\ np_random = base.st.np
                  /\ fake_random = base.st.fake
             [] op = "generate_synthetic_tables" ->
                  /\ \E append_ratio \in Ratios, update_columns \in UpdateColumns :
                       /\ AppendCount(append_ratio, size) >= 1
                       /\ call = [schema |-> schema, size |-> size,
                                  edit_points |-> edit_points,
                                  append_ratio |-> append_ratio,
                                  update_columns |-> update_columns,
                                  edit_size |-> edit_size]
                  /\ np_random \in 0..MaxOtherDraws
                  /\ fake_random = Seeded(DefaultSeed)
             [] op = "generate_table" ->
                  /\ \E any \in TableSchemas, num_rows \in 0..MaxRows :
                       call = [schema |-> any, seed |-> DefaultSeed,
                               num_rows |-> num_rows]
                  /\ np_random \in 0..MaxOtherDraws
                  /\ fake_random = <<>>
             [] op = "generate_data" ->
                  /\ \E dtype \in ListTypes, num_samples \in 0..MaxRows :
                       call = [dtype |-> dtype, num_samples |-> num_samples]
                  /\ np_random \in 0..MaxOtherDraws
                  /\ fake_random = Seeded(DefaultSeed)
  /\ pc = "call"
  /\ ret = None
  /\ files = {}
  /\ error = "none"
  /\ PipelineIdle

\* self.delete_rows(table, edit_points, edit_size)
DeleteRows ==
  /\ op = "delete_rows"
  /\ pc = "call"
  /\ ret' = <<delete_rows(call.table, call.edit_points, call.edit_size)>>
  /\ pc' = "returned"
  /\ UNCHANGED <<op, call, files, error, np_random, fake_random, pipeline_vars>>

\* self.insert_rows(table, edit_points, edit_size)
InsertRows ==
  /\ op = "insert_rows"
  /\ pc = "call"
  /\ LET inserted == insert_rows(call.schema, call.table, call.edit_points,
                                 call.edit_size, Streams(np_random, fake_random))
     IN  /\ ret' = <<inserted.table>>
         /\ np_random' = inserted.st.np
         /\ fake_random' = inserted.st.fake
  /\ pc' = "returned"
  /\ UNCHANGED <<op, call, files, error, pipeline_vars>>

\* self.append_rows(table, ratio)
AppendRows ==
  /\ op = "append_rows"
  /\ pc = "call"
  /\ LET appended == append_rows(call.schema, call.table, call.ratio,
                                 Streams(np_random, fake_random))
     IN  /\ ret' = <<appended.table>>
         /\ np_random' = appended.st.np
         /\ fake_random' = appended.st.fake
  /\ pc' = "returned"
  /\ UNCHANGED <<op, call, files, error, pipeline_vars>>

\* An update that writes the edited rows into the caller's table as well.
UpdateRowsInPlace ==
  /\ op = "update_rows"
  /\ pc = "call"
  /\ LET updated == update_rows(call.schema, call.table, call.edit_points,
                                call.columns, call.edit_size,
                                Streams(np_random, fake_random))
     IN  /\ ret' = <<updated.table>>
         /\ call' = [call EXCEPT !.table = updated.table]
         /\ np_random' = updated.st.np
         /\ fake_random' = updated.st.fake
  /\ pc' = "returned"
  /\ UNCHANGED <<op, files, error, pipeline_vars>>

\* self.update_rows(table, edit_points, columns, edit_size)
UpdateRows ==
  /\ op = "update_rows"
  /\ pc = "call"
  /\ LET updated == update_rows(call.schema, call.table, call.edit_points,
                                call.columns, call.edit_size,
                                Streams(np_random, fake_random))
     IN  /\ ret' = <<updated.table>>
         /\ np_random' = updated.st.np
         /\ fake_random' = updated.st.fake
  /\ pc' = "returned"
  /\ UNCHANGED <<op, call, files, error, pipeline_vars>>

\* self.generate_synthetic_tables(size, edit_points, append_ratio,
\*                                update_columns, edit_size)
GenerateSyntheticTables ==
  /\ op = "generate_synthetic_tables"
  /\ pc = "call"
  /\ LET fields == [k \in 1..Len(call.schema.fields) |->
                      call.schema.fields[k].name]
         table == generate_table(call.schema, call.size,
                                 Streams(np_random, fake_random))
         deleted == delete_rows(table.table, call.edit_points, call.edit_size)
         inserted == insert_rows(call.schema, table.table, call.edit_points,
                                 call.edit_size, table.st)
         appended == append_rows(call.schema, table.table, call.append_ratio,
                                 inserted.st)
         updated == update_rows(call.schema, table.table, call.edit_points,
                                fields, DefaultEditSize, appended.st)
         variants == <<[name |-> "deleted", table |-> deleted],
                       [name |-> "inserted", table |-> inserted.table],
                       [name |-> "appended", table |-> appended.table],
                       [name |-> "updated", table |-> updated.table]>>
         extra == update_columns_loop(call.schema, table.table,
                                      call.edit_points, call.update_columns,
                                      updated.st)
     IN  IF \A law \in AssertedLaws :
              AssertHolds(law, call.size, call.edit_points, call.edit_size,
                          table.table, variants)
         THEN /\ pc' = "returned"
              /\ ret' = <<[original |-> table.table,
                           variants |-> variants \o extra.variants]>>
              /\ np_random' = extra.st.np
              /\ fake_random' = extra.st.fake
              /\ UNCHANGED error
         ELSE /\ pc' = "raised"
              /\ error' = "AssertionError"
              /\ np_random' = updated.st.np
              /\ fake_random' = updated.st.fake
              /\ UNCHANGED ret
  /\ UNCHANGED <<op, call, files, pipeline_vars>>

\* FakeDataGenerator(schema, seed).generate_table(num_rows), called twice:
\* ret collects the tables.
GenerateTable ==
  /\ op = "generate_table"
  /\ pc = "call"
  /\ LET generated == generate_table(call.schema, call.num_rows,
                                     Streams(np_random, Seeded(call.seed)))
         rest == IF Len(ret) = 1 THEN "returned" ELSE "call"
     IN  IF ~generated.ok
         THEN /\ pc' = "raised"
              /\ error' = generated.error
              /\ np_random' = generated.st.np
              /\ fake_random' = generated.st.fake
              /\ UNCHANGED ret
         ELSE /\ np_random' = generated.st.np
              /\ fake_random' = generated.st.fake
              /\ IF generated.table = <<>>
                 THEN \E outcome \in EmptyDataOutcomes :
                        IF outcome.ok
                        THEN /\ ret' = Append(ret, outcome.table)
                             /\ pc' = rest
                             /\ UNCHANGED error
                        ELSE /\ pc' = "raised"
                             /\ error' = outcome.error
                             /\ UNCHANGED ret
                 ELSE /\ ret' = Append(ret, generated.table)
                      /\ pc' = rest
                      /\ UNCHANGED error
  /\ UNCHANGED <<op, call, files, pipeline_vars>>

\* self.generate_data(dtype, num_samples) for a list dtype
GenerateData ==
  /\ op = "generate_data"
  /\ pc = "call"
  /\ LET data == generate_data(call.dtype, call.num_samples,
                               Streams(np_random, fake_random))
     IN  /\ ret' = <<data.values>>
         /\ np_random' = data.st.np
         /\ fake_random' = data.st.fake
  /\ pc' = "returned"
  /\ UNCHANGED <<op, call, files, error, pipeline_vars>>

NextSynthetic ==
  \/ DeleteRows
  \/ InsertRows
  \/ AppendRows
  \/ UpdateRows
  \/ GenerateSyntheticTables
  \/ GenerateTable
  \/ GenerateData

SpecSynthetic == InitSynthetic /\ [][NextSynthetic]_vars

\* ---- properties of the synthetic table generator ----
\* Row number (from 0) of edit boundary i in a table of the given length.
Boundary(edit_points, i, length) ==
  IF i = 0 THEN 0 ELSE RowIndex(edit_points[i], length)

\* A valid edit plan: every segment that ends at an edit boundary holds at
\* least edit_size rows.
ValidPlan(length, edit_points, edit_size) ==
  \A i \in DOMAIN edit_points :
    Boundary(edit_points, i, length) - Boundary(edit_points, i - 1, length)
      >= edit_size

\* The rows (numbered from 1) of the cluster of edit_size rows right before
\* edit boundary i.
Cluster(edit_points, i, length, edit_size) ==
  {Boundary(edit_points, i, length) - j + 1 : j \in 1..edit_size}

\* A plan that breaks the invariant: too many edited rows for the table, a
\* cluster that leaves the table, or two clusters that share a row.
InvalidPlan(length, edit_points, edit_size) ==
  \/ edit_size * Len(edit_points) >= length
  \/ \E i \in DOMAIN edit_points :
       \E r \in Cluster(edit_points, i, length, edit_size) : r < 1
  \/ \E i, j \in DOMAIN edit_points :
       /\ i < j
       /\ Cluster(edit_points, i, length, edit_size)
            \cap Cluster(edit_points, j, length, edit_size) # {}

RECURSIVE PickFrom(_, _, _)
\* The rows of table whose row numbers are in keep, from row i on, in order.
PickFrom(table, keep, i) ==
  IF i > Len(table) THEN <<>>
  ELSE (IF i \in keep THEN <<table[i]>> ELSE <<>>) \o PickFrom(table, keep, i + 1)

Pick(table, keep) == PickFrom(table, keep, 1)

SyntheticReturned == op = "generate_synthetic_tables" /\ pc = "returned"

\* The five row-count laws on what generate_synthetic_tables returned.
RowCountLaws ==
  LET size == call.size
      edits == call.edit_size * Len(call.edit_points)
      variants == ret[1].variants
  IN  /\ Len(ret[1].original) = size
      /\ Len(Variant(variants, "deleted")) = size - edits
      /\ Len(Variant(variants, "inserted")) = size + edits
      /\ Len(Variant(variants, "appended"))
           = size + (call.append_ratio * size) \div PointDen
      /\ Len(Variant(variants, "updated")) = size

ChangedRows(c) == {r \in DOMAIN call.table : ret[1][r][c] # call.table[r][c]}

\* The edit_size rows from each edit point on all lie in the table and no
\* two edit points share one.
UpdateFits ==
  /\ \A i \in DOMAIN call.edit_points :
       RowIndex(call.edit_points[i], Len(call.table)) + call.edit_size
         <= Len(call.table)
  /\ \A i, j \in DOMAIN call.edit_points :
       i < j => RowIndex(call.edit_points[i], Len(call.table)) + call.edit_size
                  <= RowIndex(call.edit_points[j], Len(call.table))

\* C15: update_rows overwrites edit_size distinct rows per edit point, so
\* exactly edit_size * k rows differ from the input in each targeted column.
C15_EditSizeRowsDiffer ==
  (op = "update_rows" /\ pc = "returned" /\ UpdateFits)
    => \A k \in DOMAIN call.columns :
         Cardinality(ChangedRows(call.columns[k]))
           = call.edit_size * Len(call.edit_points)

\* The rows update_rows addresses: int(place * len(df)) for each edit point.
TargetedRows ==
  {RowIndex(call.edit_points[i], Len(call.table)) + 1 :
     i \in DOMAIN call.edit_points}

\* C16: update_rows returns a table with the input's row count and columns
\* in which every cell outside (targeted rows x targeted columns) equals the
\* input's cell; a column outside the columns argument is never modified.
C16_UpdateFrame ==
  (op = "update_rows" /\ pc = "returned")
    => /\ Len(ret[1]) = Len(call.table)
       /\ \A r \in DOMAIN ret[1] :
            /\ DOMAIN ret[1][r] = DOMAIN call.table[r]
            /\ \A c \in DOMAIN ret[1][r] :
                 (r \notin TargetedRows
                    \/ \A k \in DOMAIN call.columns : call.columns[k] # c)
                   => ret[1][r][c] = call.table[r][c]

C16_Witness ==
  /\ op = "update_rows"
  /\ pc = "returned"
  /\ call.schema = SchemaAB
  /\ call.columns = <<"a">>
  /\ ChangedRows("a") # {}
  /\ ChangedRows("b") = {}

\* C17: for a valid edit plan delete_rows returns the input's rows in their
\* order without the edit_size rows right before each edit boundary, and
\* removes nothing at the final boundary 1.0; the result has
\* len(table) - edit_size * len(edit_points) rows.
C17_DeleteBeforeBoundaries ==
  (op = "delete_rows" /\ pc = "returned"
     /\ ValidPlan(Len(call.table), call.edit_points, call.edit_size))
    => LET removed ==
             UNION {Cluster(call.edit_points, i, Len(call.table),
                            call.edit_size) : i \in DOMAIN call.edit_points}
       IN  /\ ret[1] = Pick(call.table, DOMAIN call.table \ removed)
           /\ Len(ret[1])
                = Len(call.table) - call.edit_size * Len(call.edit_points)

C17_Witness ==
  /\ op = "delete_rows"
  /\ pc = "returned"
  /\ ValidPlan(Len(call.table), call.edit_points, call.edit_size)
  /\ Len(call.edit_points) = 2
  /\ Len(ret[1]) = Len(call.table) - 2 * call.edit_size

\* The places (numbered from 1) of the rows insert_rows splices into its
\* result: edit_size of them after the rows before boundary i and after the
\* rows spliced in at the earlier boundaries.
SplicedPlaces ==
  {Boundary(call.edit_points, i, Len(call.table)) + (i - 1) * call.edit_size + j :
     i \in DOMAIN call.edit_points, j \in 1..call.edit_size}

\* C18: insert_rows returns the input's rows in their order with exactly
\* edit_size fresh rows spliced in at each edit boundary and none at the
\* final boundary 1.0: taking the spliced rows out gives the input back, and
\* the result has len(table) + edit_size * len(edit_points) rows.
C18_InsertAtBoundaries ==
  (op = "insert_rows" /\ pc = "returned")
    => /\ Len(ret[1]) = Len(call.table) + call.edit_size * Len(call.edit_points)
       /\ Pick(ret[1], DOMAIN ret[1] \ SplicedPlaces) = call.table
       /\ \A place \in SplicedPlaces :
            /\ place \in DOMAIN ret[1]
            /\ \A r \in DOMAIN call.table : ret[1][place] # call.table[r]

C18_Witness ==
  /\ op = "insert_rows"
  /\ pc = "returned"
  /\ Len(call.edit_points) = 2
  /\ call.edit_size = 2
  /\ Len(ret[1]) = Len(call.table) + 4

\* C19: an edit plan that breaks the invariant is rejected with an error by
\* the generator, by delete_rows as by generate_synthetic_tables: no call
\* returns a table for it.
C19_InvalidPlanRejected ==
  /\ (op = "delete_rows" /\ pc # "call"
        /\ InvalidPlan(Len(call.table), call.edit_points, call.edit_size))
       => pc = "raised"
  /\ (op = "generate_synthetic_tables" /\ pc # "call"
        /\ InvalidPlan(call.size, call.edit_points, call.edit_size))
       => pc = "raised"

\* C20: two generators built with the same schema and seed return
\* value-identical tables from generate_table(n), whatever was drawn from
\* the random streams before.
C20_SameSeedSameTable ==
  (op = "generate_table" /\ pc = "returned") => ret[1] = ret[2]

\* =================================================================
\* de/cli.py: the stats command's CDC Parquet rewrites
\* =================================================================
\* The stems of the *.parquet files rglob finds, "cdc"-named ones left out.
StemNames == <<"a", "b", "c", "d">>

FileLists == {SubSeq(StemNames, 1, n) : n \in 0..MaxFiles}

\* --max-processes: not given, 1, or more
MaxProcesses == {None, <<1>>, <<MaxWorkers>>}

\* path.with_name(path.stem + "-zstd-cdc.parquet"),
\* path.with_name(path.stem + "-snappy-cdc.parquet")
CdcFile(stem, codec) == stem \o "-" \o codec \o "-cdc.parquet"

\* if not (skip_rewrite or skip_parquet_rewrite or skip_zstd / skip_snappy)
Skipped(codec) ==
  \/ call.skip_rewrite
  \/ call.skip_parquet_rewrite
  \/ codec = "zstd" /\ call.skip_zstd
  \/ codec = "snappy" /\ call.skip_snappy

\* The compression the max_processes == 1 loop passes to rewrite_to_parquet
\* in the phase that writes the codec's files.
SequentialCompression(codec) == "snappy"

\* The compression bound into the partial handed to process_map.
PoolCompression(codec) == codec

\* pq.ParquetWriter(dest_path, schema, compression=...) replaces the file.
Rewritten(dir, dest, compression) ==
  {f \in dir : f.path # dest} \cup {[path |-> dest, compression |-> compression]}

InitStats ==
  /\ op = "stats"
  /\ call \in [files : FileLists, max_processes : MaxProcesses,
                skip_rewrite : BOOLEAN, skip_parquet_rewrite : BOOLEAN,
                skip_zstd : BOOLEAN, skip_snappy : BOOLEAN]
  /\ pc = "call"
  /\ ret = {}
  /\ files = {}
  /\ error = "none"
  /\ np_random = 0
  /\ fake_random = <<>>
  /\ PipelineIdle

\* files, cdc_zstd_files and cdc_snappy_files are listed; the zstd phase
\* comes first.
ListFiles ==
  /\ op = "stats"
  /\ pc = "call"
  /\ pc' = "zstd"
  /\ UNCHANGED <<op, call, ret, files, error, np_random, fake_random,
                 pipeline_vars>>

\* One iteration of "for src_path, dst_path in zip(files, cdc_..._files)";
\* ret holds the indices of the files rewritten in this phase.
RewriteSequential ==
  /\ op = "stats"
  /\ pc \in {"zstd", "snappy"}
  /\ ~Skipped(pc)
  /\ call.max_processes = <<1>>
  /\ \E i \in DOMAIN call.files :
       /\ i \notin ret
       /\ \A j \in 1..(i - 1) : j \in ret
       /\ files' = Rewritten(files, CdcFile(call.files[i], pc),
                             SequentialCompression(pc))
       /\ ret' = ret \cup {i}
  /\ UNCHANGED <<op, call, pc, error, np_random, fake_random, pipeline_vars>>

\* One task of process_map(partial(rewrite_to_parquet, compression=...),
\* files, cdc_..._files, max_workers=max_processes), in any order.
RewritePool(i) ==
  /\ op = "stats"
  /\ pc \in {"zstd", "snappy"}
  /\ ~Skipped(pc)
  /\ call.max_processes # <<1>>
  /\ i \notin ret
  /\ files' = Rewritten(files, CdcFile(call.files[i], pc), PoolCompression(pc))
  /\ ret' = ret \cup {i}
  /\ UNCHANGED <<op, call, pc, error, np_random, fake_random, pipeline_vars>>

\* A phase is over when it is skipped or every file was rewritten.
EndPhase ==
  /\ op = "stats"
  /\ pc \in {"zstd", "snappy"}
  /\ Skipped(pc) \/ ret = DOMAIN call.files
  /\ pc' = IF pc = "zstd" THEN "snappy" ELSE "returned"
  /\ ret' = {}
  /\ UNCHANGED <<op, call, files, error, np_random, fake_random, pipeline_vars>>

NextStats ==
  \/ ListFiles
  \/ RewriteSequential
  \/ \E i \in DOMAIN call.files : RewritePool(i)
  \/ EndPhase

SpecStats == InitStats /\ [][NextStats]_vars

RECURSIVE Supported(_)
\* Every dtype in the schema is one generate_data has a branch for.
Supported(dtype) ==
  CASE dtype.kind \in {"int", "float", "bool", "str", "largestr"} -> TRUE
    [] dtype.kind = "dict" ->
         \A j \in DOMAIN dtype.fields : Supported(dtype.fields[j].dtype)
    [] dtype.kind = "list" ->
         dtype.elem # <<>> /\ Supported(dtype.elem[1])
    [] OTHER -> FALSE

\* C21: for every supported schema, nested structs without sub-fields and
\* list columns included, and every size n >= 1, generate_table(n) returns
\* a table of exactly n rows that have the schema's columns.
C21_RowsAndColumns ==
  (op = "generate_table" /\ Supported(call.schema) /\ call.num_rows >= 1)
    => /\ pc # "raised"
       /\ \A k \in DOMAIN ret :
            /\ Len(ret[k]) = call.num_rows
            /\ \A r \in DOMAIN ret[k] :
                 DOMAIN ret[k][r] = ColumnNames(call.schema)

\* C22: a schema with an unsupported dtype at any depth (column, struct
\* field, list element, the empty list type) makes generation fail with the
\* "Unsupported data type" ValueError, and no table is returned.
C22_UnsupportedRaises ==
  (op = "generate_table" /\ ~Supported(call.schema) /\ pc # "call")
    => /\ pc = "raised"
       /\ error = "ValueError"
       /\ ret = <<>>

C22_Witness ==
  /\ op = "generate_table"
  /\ call.schema = DictType(<<Column("c", ListType(<<DateType>>))>>)
  /\ call.num_rows >= 1
  /\ pc = "raised"
  /\ error = "ValueError"

\* C24: for a List(T) column generation draws a length in [0,5) per row and
\* sum(lengths) element values, and slices them so that row i holds exactly
\* lengths[i] elements and the rows, concatenated in order, are the drawn
\* values: none is skipped and no row is cut short.
C24_ListRowsPartitionDraws ==
  [][(op = "generate_data" /\ pc = "call" /\ pc' = "returned")
       => LET lengths == [i \in 1..call.num_samples |->
                            randint(np_random + i - 1, ListLengths)]
              drawn == generate_data(call.dtype.elem[1], SumSeq(lengths),
                                     Streams(np_random + call.num_samples,
                                             fake_random)).values
          IN  /\ Len(ret'[1]) = call.num_samples
              /\ \A i \in DOMAIN ret'[1] :
                   /\ lengths[i] \in 0..(ListLengths - 1)
                   /\ Len(ret'[1][i]) = lengths[i]
              /\ Flatten(ret'[1]) = drawn]_vars

\* The rows generate_synthetic_tables' update calls address in the original.
OriginalTargets ==
  {RowIndex(call.edit_points[i], Len(ret[1].original)) + 1 :
     i \in DOMAIN call.edit_points}

\* Every cell of updated outside (targeted rows x columns) is the original's.
UpdatedFromOriginal(updated, columns) ==
  /\ Len(updated) = Len(ret[1].original)
  /\ \A r \in DOMAIN updated :
       /\ DOMAIN updated[r] = DOMAIN ret[1].original[r]
       /\ \A c \in DOMAIN updated[r] :
            (r \notin OriginalTargets \/ \A k \in DOMAIN columns : columns[k] # c)
              => updated[r][c] = ret[1].original[r][c]

\* C23: generate_synthetic_tables returns the variants deleted, inserted,
\* appended, updated and updated_<key> for every key of update_columns, in
\* that order and no other; each one is one transformation of the original
\* table and of no other variant: deleted is the original without some rows,
\* inserted without its spliced rows is the original, appended starts with
\* the original, updated and updated_<key> differ from the original only in
\* the targeted rows, and updated_<key> only in the columns listed for key.
C23_VariantsFromOriginal ==
  SyntheticReturned
    => LET original == ret[1].original
           variants == ret[1].variants
           edits == call.edit_size * Len(call.edit_points)
           spliced ==
             {Boundary(call.edit_points, i, Len(original))
                + (i - 1) * call.edit_size + j :
                i \in DOMAIN call.edit_points, j \in 1..call.edit_size}
       IN  /\ [k \in DOMAIN variants |-> variants[k].name]
                = <<"deleted", "inserted", "appended", "updated">>
                    \o [k \in DOMAIN call.update_columns |->
                          "updated_" \o call.update_columns[k].key]
           /\ \E keep \in SUBSET DOMAIN original :
                /\ Cardinality(keep) = Len(original) - edits
                /\ variants[1].table = Pick(original, keep)
           /\ Pick(variants[2].table, DOMAIN variants[2].table \ spliced)
                = original
           /\ Len(variants[3].table) > Len(original)
           /\ SubSeq(variants[3].table, 1, Len(original)) = original
           /\ UpdatedFromOriginal(variants[4].table,
                                  [k \in 1..Len(call.schema.fields) |->
                                     call.schema.fields[k].name])
           /\ \A k \in DOMAIN call.update_columns :
                UpdatedFromOriginal(variants[4 + k].table,
                                    call.update_columns[k].fields)

C23_Witness ==
  /\ SyntheticReturned
  /\ call.schema = SchemaAB
  /\ call.update_columns # <<>>
  /\ Len(ret[1].variants) = 5
  /\ \E r \in DOMAIN ret[1].original :
       /\ ret[1].variants[5].table[r].a # ret[1].original[r].a
       /\ ret[1].variants[4].table[r].b # ret[1].original[r].b

\* C25: in compare_formats_tables the groups and the estimates map are
\* written by the orchestrating thread alone: a step that changes groups is
\* an iteration of the as_completed loop over a future that had already
\* finished, a step that changes estimates is the dict(zip(...)) after every
\* estimate finished, and no worker task starts or finishes in such a step.
C25_CollectorAloneWrites ==
  [][(TablesRun /\ (groups' # groups \/ estimates' # estimates))
       => /\ futures' = futures
          /\ est_futures' = est_futures
          /\ groups' # groups
               => /\ pc = "collect"
                  /\ estimates' = estimates
                  /\ \E i \in DOMAIN futures :
                       /\ futures[i].status = "done"
                       /\ yielded' = yielded \cup {i}
                       /\ i \notin yielded
                       /\ groups' = GroupAppend(groups, futures[i].key,
                                                futures[i].outcome.path)
          /\ estimates' # estimates
               => /\ pc = "zip"
                  /\ groups' = groups
                  /\ \A i \in DOMAIN est_futures :
                       est_futures[i].status = "done"]_vars

C25_Witness ==
  /\ TablesRun
  /\ \E k \in DOMAIN groups : Len(groups[k].paths) >= 2
  /\ \E i \in DOMAIN futures : futures[i].status = "running"
  /\ max_workers >= 2

EditOps == {"delete_rows", "insert_rows", "append_rows", "update_rows"}

\* C26: delete_rows, insert_rows, append_rows and update_rows leave the
\* table they were given as it was: when one of them returns, the caller's
\* table has the rows, values and columns it had before the call, and the
\* result is handed back as a value of its own.
C26_InputTableUnchanged ==
  [][(op \in EditOps /\ pc = "call" /\ pc' = "returned")
       => /\ call'.table = call.table
          /\ call'.schema = call.schema
          /\ Len(ret') = 1]_vars

C26_Witness ==
  /\ op = "update_rows"
  /\ pc = "returned"
  /\ Len(call.table) >= 2
  /\ \E r \in DOMAIN call.table : ret[1][r] # call.table[r]

\* Python's round(point * length): to the nearest integer, a half to the
\* even neighbour.
PyRound(point, length) ==
  LET q == (point * length) \div PointDen
      r == (point * length) % PointDen
  IN  IF 2 * r < PointDen THEN q
      ELSE IF 2 * r > PointDen THEN q + 1
      ELSE IF q % 2 = 0 THEN q ELSE q + 1

RoundedBoundary(i) == PyRound(call.edit_points[i], Len(call.table))

\* C27: delete_rows and insert_rows put edit boundary i at the row index
\* round(point_i * len(table)): delete_rows drops the edit_size rows right
\* before it and insert_rows splices its fresh rows in right after the
\* rows before it, also when point_i * len(table) has a fractional part of
\* one half or more.
C27_RoundedBoundaries ==
  /\ (op = "delete_rows" /\ pc = "returned"
        /\ ValidPlan(Len(call.table), call.edit_points, call.edit_size))
       => ret[1] = Pick(call.table,
                        DOMAIN call.table
                          \ {RoundedBoundary(i) - j + 1 :
                               i \in DOMAIN call.edit_points,
                               j \in 1..call.edit_size})
  /\ (op = "insert_rows" /\ pc = "returned")
       => Pick(ret[1],
               DOMAIN ret[1]
                 \ {RoundedBoundary(i) + (i - 1) * call.edit_size + j :
                      i \in DOMAIN call.edit_points,
                      j \in 1..call.edit_size})
            = call.table

\* C28: in compare_formats_tables the record of a (variant, format) pair
\* carries the estimate of the paths written for that pair: record k has the
\* key of bucket k and the outcome of the estimate run on bucket k's paths,
\* these are the destinations of that pair's write futures and of no
\* others, and no path is counted in two buckets, in whatever order the
\* writes completed.
C28_RecordOfOwnPaths ==
  (TablesRun /\ Distinct(formats) /\ pc = "returned")
    => /\ \A k \in DOMAIN estimates :
            /\ estimates[k].key = groups[k].key
            /\ estimates[k].data = est_futures[k].outcome.data
            /\ est_futures[k].paths = groups[k].paths
            /\ Range(groups[k].paths)
                 = {futures[i].outcome.path : i \in BucketFutures(groups[k].key)}
            /\ result[k] = EstimationResult(groups[k].key[2], groups[k].key[1],
                                            est_futures[k].outcome.data)
       /\ \A k, l \in DOMAIN groups :
            k # l => Range(groups[k].paths) \cap Range(groups[l].paths) = {}

\* C29: for every pool size max_workers >= 1, when every write task and
\* every estimate task terminates, compare_formats_tables and
\* compare_formats eventually return or raise; the orchestrator never waits
\* forever on a task it submitted to the pool.
C29_EventuallyTerminates == <>Terminated

C29_Witness ==
  /\ max_workers = 1
  /\ Len(futures) >= 2
  /\ \E i \in DOMAIN est_futures : est_futures[i].status = "done"
  /\ pc = "returned"

\* C30: the stats command leaves the same files whether it rewrites in the
\* max_processes == 1 loop or through the process pool: for every source
\* file and every codec whose phase is not skipped, <stem>-zstd-cdc.parquet
\* was written with zstd and <stem>-snappy-cdc.parquet with snappy, and
\* nothing else was written.
C30_CodecMatchesName ==
  (op = "stats" /\ pc = "returned")
    => files = {[path |-> CdcFile(call.files[i], codec), compression |-> codec] :
                  i \in DOMAIN call.files,
                  codec \in {c \in {"zstd", "snappy"} : ~Skipped(c)}}

====
